---- MODULE Spec2Model ----
(***************************************************************************)
(* Model of generate_terrain.py: the deterministic noise hash, the tile    *)
(* generators built on it, the atlas compositor (set_pixel, tile_origin,   *)
(* draw_tile) and the batch run that draws the fixed manifest and saves.   *)
(*                                                                         *)
(* A colour is a tuple <<r, g, b, a>>; a 16x16 grid is a function          *)
(* [0..15 -> [0..15 -> colour]] indexed grid[y][x] as pixels[y][x] is in   *)
(* the source; the atlas is indexed atlas[y][x] for putpixel((x, y), ...). *)
(***************************************************************************)
EXTENDS Integers, Sequences, FiniteSets, TLC

VARIABLES
    atlas,      \* the global image buffer (line 17)
    raised,     \* TRUE once an exception has propagated out of a call
    dropped,    \* how many set_pixel calls failed the bounds check so far
    op,         \* the call in progress or just made: a record with field name
    ret,        \* what the last pure call returned (a byte, a grid), or <<>>
    pc,         \* where the batch run (lines 711-773) stands
    entry,      \* the next manifest entry of the batch run, from 1
    output,     \* the saved image file: "absent", or the atlas it holds
    stdout,     \* the messages printed so far
    par         \* the two blitters of the data-parallel compositing

vars == <<atlas, raised, dropped, op, ret, pc, entry, output, stdout, par>>

(***************************************************************************)
(* Atlas configuration, lines 10-14.                                       *)
(***************************************************************************)
TILE_SIZE == 16
TILES_PER_ROW == 8
TILE_COUNT == 64
ATLAS_WIDTH == TILES_PER_ROW * TILE_SIZE
ATLAS_HEIGHT == ((TILE_COUNT + TILES_PER_ROW - 1) \div TILES_PER_ROW) * TILE_SIZE

Range(n) == 0 .. (n - 1)

\* F(e) with e evaluated once, as the right side of a Python assignment is:
\* the bound v is a value, however many times F reads it
Bind(e, F(_)) == CHOOSE r \in {F(v) : v \in {e}} : TRUE

(***************************************************************************)
(* Python integers are unbounded and TLC's have 32 bits, so noise's        *)
(* arithmetic is carried out on words of four 12-bit limbs, least          *)
(* significant first: an integer modulo 2^48 in two's complement.  Sums,   *)
(* products and XOR commute with reduction modulo 2^48.  n >> k of a       *)
(* reduced word is right in its low 48 - k bits only; the byte noise       *)
(* returns reads bits 0..7 and 16..23 of the second n, which depend on     *)
(* bits 0..23 of n ^ (n >> 13), hence on bits 0..36 of the first n: all    *)
(* below bit 48 - 13.                                                      *)
(***************************************************************************)
LimbBase == 4096

\* v (any TLC integer; \div floors and % is non-negative, as // and % of Python)
ToWord(v) ==
    LET v1 == v \div LimbBase
        v2 == v1 \div LimbBase
        v3 == v2 \div LimbBase
    IN  <<v % LimbBase, v1 % LimbBase, v2 % LimbBase, v3 % LimbBase>>

WordAdd(a, b) ==
    LET s1 == a[1] + b[1]
        s2 == a[2] + b[2] + (s1 \div LimbBase)
        s3 == a[3] + b[3] + (s2 \div LimbBase)
        s4 == a[4] + b[4] + (s3 \div LimbBase)
    IN  <<s1 % LimbBase, s2 % LimbBase, s3 % LimbBase, s4 % LimbBase>>

WordMul(a, b) ==
    LET p1 == a[1] * b[1]
        p2 == a[1] * b[2] + a[2] * b[1] + (p1 \div LimbBase)
        p3 == a[1] * b[3] + a[2] * b[2] + a[3] * b[1] + (p2 \div LimbBase)
        p4 == a[1] * b[4] + a[2] * b[3] + a[3] * b[2] + a[4] * b[1] + (p3 \div LimbBase)
    IN  <<p1 % LimbBase, p2 % LimbBase, p3 % LimbBase, p4 % LimbBase>>

\* bit w (a power of two) of a ^ b, in place
XorBit(a, b, w) == (((a \div w) + (b \div w)) % 2) * w

\* a ^ b of two limbs
BitXor(a, b) ==
    XorBit(a, b, 1) + XorBit(a, b, 2) + XorBit(a, b, 4) + XorBit(a, b, 8)
    + XorBit(a, b, 16) + XorBit(a, b, 32) + XorBit(a, b, 64) + XorBit(a, b, 128)
    + XorBit(a, b, 256) + XorBit(a, b, 512) + XorBit(a, b, 1024) + XorBit(a, b, 2048)

WordXor(a, b) ==
    <<BitXor(a[1], b[1]), BitXor(a[2], b[2]), BitXor(a[3], b[3]), BitXor(a[4], b[4])>>

\* a >> 13: one limb and one bit; the bits shifted in at the top are 0
WordShr13(a) ==
    << (a[2] \div 2) + (a[3] % 2) * 2048,
       (a[3] \div 2) + (a[4] % 2) * 2048,
       a[4] \div 2,
       0 >>

\* a >> 16: one limb and four bits
WordShr16(a) ==
    << (a[2] \div 16) + (a[3] % 16) * 256,
       (a[3] \div 16) + (a[4] % 16) * 256,
       a[4] \div 16,
       0 >>

\* a & 0xFF, as an integer
WordLowByte(a) == a[1] % 256

\* a & 0x1FF
WordLowNineBits(a) == a[1] % 512

\* the multipliers of lines 41-42, as words
NOISE_CX == <<1969, 1382, 22, 0>>       \* 374761393
NOISE_CY == <<2863, 3406, 39, 0>>       \* 668265263
NOISE_CSEED == <<2527, 885, 95, 0>>     \* 1597463007
NOISE_CMIX == <<3937, 3865, 75, 0>>     \* 1274126177

\* v * c for an integer v and a word c
WordScale(v, c) == Bind(ToWord(v), LAMBDA w : WordMul(w, c))

\* line 41: n = x * 374761393 + y * 668265263 + seed * 1597463007
noise_sum(x, y, seed) ==
    Bind(WordScale(x, NOISE_CX), LAMBDA px :
    Bind(WordScale(y, NOISE_CY), LAMBDA py :
    Bind(WordScale(seed, NOISE_CSEED), LAMBDA ps :
    Bind(WordAdd(px, py), LAMBDA pxy : WordAdd(pxy, ps)))))

\* line 42: n = (n ^ (n >> 13)) * 1274126177
noise_mix(n) ==
    Bind(WordShr13(n), LAMBDA s :
    Bind(WordXor(n, s), LAMBDA t : WordMul(t, NOISE_CMIX)))

\* line 43 without the mask: n ^ (n >> 16)
noise_fold(n) == Bind(WordShr16(n), LAMBDA s : WordXor(n, s))

noise_wide_mask(x, y, seed) ==
    Bind(noise_sum(x, y, seed), LAMBDA n1 :
    Bind(noise_mix(n1), LAMBDA n2 :
    Bind(noise_fold(n2), LAMBDA n3 : WordLowNineBits(n3))))

noise(x, y, seed) ==
    Bind(noise_sum(x, y, seed), LAMBDA n1 :
    Bind(noise_mix(n1), LAMBDA n2 :
    Bind(noise_fold(n2), LAMBDA n3 : WordLowByte(n3))))

\* clamp(v, min_v=0, max_v=255), lines 45-47; the defaults are written out at each call
max(a, b) == IF a < b THEN b ELSE a

min(a, b) == IF b < a THEN b ELSE a

clamp_no_upper(v, min_v, max_v) == Bind(v, LAMBDA w : max(min_v, w))

clamp(v, min_v, max_v) ==
    Bind(v, LAMBDA w : Bind(min(max_v, w), LAMBDA m : max(min_v, m)))

\* the two nested loops every generator runs: pixels[y][x] = P(x, y)
Grid(P(_, _)) == [y \in Range(TILE_SIZE) |-> [x \in Range(TILE_SIZE) |-> P(x, y)]]

TRANSPARENT == <<0, 0, 0, 0>>

(***************************************************************************)
(* Tile generators.  n >> 2 and n >> 4 of a byte are n \div 4, n \div 16.  *)
(***************************************************************************)
air_pixel(x, y) == TRANSPARENT

gen_air == Grid(air_pixel)

stone_pixel(x, y) ==
    LET n  == noise(x, y, 1)
        v0 == 120 + ((n % 40) - 20)
        v1 == IF noise(x, y, 7) % 16 < 2 THEN v0 - 60
              ELSE IF noise(x, y, 13) % 12 < 2 THEN v0 + 40
              ELSE v0
    IN  Bind(clamp(v1, 0, 255), LAMBDA v : <<v, v, v, 255>>)

gen_stone == Grid(stone_pixel)

\* (x, y, radius, base_value) of lines 82-91; the radius is kept doubled
\* (3.5 -> 7), so that dist < sr reads 4 * dist^2 < (2 * sr)^2 in integers
stones ==
    << <<3, 3, 7, 175>>,
       <<11, 3, 6, 155>>,
       <<7, 8, 8, 185>>,
       <<2, 11, 5, 165>>,
       <<13, 12, 6, 170>>,
       <<7, 14, 5, 160>>,
       <<14, 7, 4, 180>> >>

\* (x - sx)**2 + (y - sy)**2, the square of dist (line 102)
stone_dist2(x, y, i) ==
    (x - stones[i][1]) * (x - stones[i][1]) + (y - stones[i][2]) * (y - stones[i][2])

\* dist < sr (line 103); dist^2 is an integer and sr^2 is 4, 6.25, 9, 12.25 or
\* 16, and the float square root of a perfect square is exact
in_stone_disk(x, y, i) == 4 * stone_dist2(x, y, i) < stones[i][3] * stones[i][3]

first_stone_nearest(x, y, i) ==
    LET S == {j \in i .. Len(stones) : in_stone_disk(x, y, j)}
    IN  IF S = {} THEN 0
        ELSE CHOOSE j \in S : \A k \in S :
                \/ stone_dist2(x, y, j) < stone_dist2(x, y, k)
                \/ stone_dist2(x, y, j) = stone_dist2(x, y, k) /\ j <= k

\* the for loop of line 101 with its break: the index of the first stone
\* that holds the pixel, 0 when none does
RECURSIVE first_stone(_, _, _)
first_stone(x, y, i) ==
    IF i > Len(stones) THEN 0
    ELSE IF in_stone_disk(x, y, i) THEN i
    ELSE first_stone(x, y, i + 1)

\* the loop body for the owning stone i (lines 105-114); dist < sr * 0.7 is
\* 400 * dist^2 < 49 * (2 * sr)^2, never an equality for these radii
stone_shade(x, y, i) ==
    LET sx == stones[i][1]
        sy == stones[i][2]
        v0 == stones[i][4] + (noise(x, y, 5) % 25) - 12
    IN  IF x < sx /\ y < sy /\ 400 * stone_dist2(x, y, i) < 49 * stones[i][3] * stones[i][3]
        THEN v0 + 50
        ELSE IF x > sx /\ y > sy THEN v0 - 25
        ELSE v0

cobblestone_value(x, y) ==
    Bind(first_stone(x, y, 1), LAMBDA i :
    LET in_stone == i # 0
        v0 == IF in_stone THEN stone_shade(x, y, i) ELSE 140
        v1 == IF ~in_stone THEN 5 + (noise(x, y, 2) % 15) ELSE v0
        v2 == IF ~in_stone /\ noise(x, y, 11) % 8 < 1 THEN 0 ELSE v1
        v3 == IF in_stone /\ v2 > 160 /\ noise(x, y, 17) % 12 < 1 THEN 255 ELSE v2
    IN  clamp(v3, 0, 255))

cobblestone_pixel(x, y) ==
    Bind(cobblestone_value(x, y), LAMBDA v : <<v, v, v, 255>>)

gen_cobblestone == Grid(cobblestone_pixel)

dirt_pixel(x, y) ==
    Bind(noise(x, y, 3), LAMBDA n :
    Bind(noise(x, y, 19) % 25 < 2, LAMBDA pebble :
    Bind(noise(x, y, 23) % 30 < 1, LAMBDA spot :
    Bind(noise(x, y, 29) % 15 < 1, LAMBDA grain :
    LET
        r0 == 139 + (n % 30) - 15
        g0 == 90 + ((n \div 4) % 25) - 12
        b0 == 60 + ((n \div 16) % 20) - 10
        r1 == IF pebble THEN r0 + 35 ELSE r0
        g1 == IF pebble THEN g0 + 25 ELSE g0
        b1 == IF pebble THEN b0 + 20 ELSE b0
        r2 == IF spot THEN r1 - 40 ELSE r1
        g2 == IF spot THEN g1 - 30 ELSE g1
        b2 == IF spot THEN b1 - 25 ELSE b1
        r3 == IF grain THEN r2 + 20 ELSE r2
        g3 == IF grain THEN g2 + 15 ELSE g2
        b3 == IF grain THEN b2 + 10 ELSE b2
    IN  <<clamp(r3, 0, 255), clamp(g3, 0, 255), clamp(b3, 0, 255), 255>>))))

gen_dirt == Grid(dirt_pixel)

grass_top_pixel(x, y) ==
    Bind(noise(x, y, 4), LAMBDA n :
    Bind(noise(x, y, 31) % 12 < 2, LAMBDA lime :
    Bind(noise(x, y, 37) % 18 < 1, LAMBDA dark :
    Bind(noise(x, y, 41) % 20 < 1, LAMBDA blade :
    LET
        r0 == 105 + (n % 30) - 10
        g0 == 195 + ((n \div 4) % 35) - 10
        b0 == 95 + ((n \div 16) % 25) - 10
        r1 == IF lime THEN r0 + 30 ELSE r0
        g1 == IF lime THEN g0 + 45 ELSE g0
        b1 == IF lime THEN b0 + 25 ELSE b0
        r2 == IF dark THEN r1 - 25 ELSE r1
        g2 == IF dark THEN g1 - 35 ELSE g1
        b2 == IF dark THEN b1 - 20 ELSE b1
        r3 == IF blade THEN r2 + 40 ELSE r2
        g3 == IF blade THEN g2 + 30 ELSE g2
        b3 == IF blade THEN b2 - 10 ELSE b2
    IN  <<clamp(r3, 50, 255), clamp(g3, 100, 255), clamp(b3, 50, 255), 255>>))))

gen_grass_top == Grid(grass_top_pixel)

\* rows of grass on top of the dirt (line 225)
GRASS_ROWS == 3

grass_side_pixel_rederived(x, y) ==
    IF y < GRASS_ROWS THEN grass_top_pixel(x, y + 1) ELSE gen_dirt[y][x]

grass_side_pixel(x, y) ==
    IF y < GRASS_ROWS THEN gen_grass_top[y][x] ELSE gen_dirt[y][x]

gen_grass_side == Grid(grass_side_pixel)

sand_pixel(x, y) ==
    Bind(noise(x, y, 6), LAMBDA n :
    LET
        r == 210 + (n % 20) - 10
        g == 200 + ((n \div 4) % 18) - 9
        b == 145 + ((n \div 16) % 22) - 11
    IN  <<clamp(r, 0, 255), clamp(g, 0, 255), clamp(b, 0, 255), 255>>)

gen_sand == Grid(sand_pixel)

gravel_pixel(x, y) ==
    LET n  == noise(x, y, 7)
        v0 == 125 + (n % 35) - 17
    IN  Bind(IF noise(x, y, 43) % 15 < 2 THEN v0 - 45 ELSE v0, LAMBDA v :
        LET r == v
            g == clamp(v - 8, 0, 255)
            b == clamp(v - 12, 0, 255)
        IN  <<clamp(r, 0, 255), clamp(g, 0, 255), clamp(b, 0, 255), 255>>)

gen_gravel == Grid(gravel_pixel)


\* int(dist * 1.8) of line 281, with dist = sqrt((x - 7.5)^2 + (y - 7.5)^2):
\* dist * 1.8 = 0.9 * sqrt(d) for d = (2x - 15)^2 + (2y - 15)^2, so the
\* integer part is the k with 100 k^2 <= 81 d < 100 (k + 1)^2; 81 d is never
\* 100 k^2 for a sum d of two odd squares, so rounding cannot cross an integer
log_ring_index(x, y) ==
    LET d == (2 * x - 15) * (2 * x - 15) + (2 * y - 15) * (2 * y - 15)
    IN  CHOOSE k \in 0 .. (2 * TILE_SIZE) :
            100 * k * k <= 81 * d /\ 81 * d < 100 * (k + 1) * (k + 1)

\* int(r * 0.7) and int(r * 0.42) (lines 290-291) for r in 110..169, where the
\* float products truncate to the exact quotients
log_end_pixel(x, y) ==
    LET ring == log_ring_index(x, y) % 2
        base == IF ring = 0 THEN 160 ELSE 120
        n == noise(x, y, 8)
    IN  Bind(base + (n % 20) - 10, LAMBDA r :
        LET g == clamp((r * 7) \div 10, 0, 255)
            b == clamp((r * 42) \div 100, 0, 255)
        IN  <<clamp(r, 0, 255), g, b, 255>>)

gen_log_end == Grid(log_end_pixel)

log_bark_pixel(x, y) ==
    Bind(noise(x, y, 9), LAMBDA n :
    LET
        r0 == 145 + (n % 25) - 12
        g0 == 115 + ((n \div 4) % 20) - 10
        b0 == 70 + ((n \div 16) % 18) - 9
        stripe == x % 4 = 0
        r == IF stripe THEN r0 - 20 ELSE r0
        g == IF stripe THEN g0 - 15 ELSE g0
        b == IF stripe THEN b0 - 10 ELSE b0
    IN  <<clamp(r, 0, 255), clamp(g, 0, 255), clamp(b, 0, 255), 255>>)

gen_log_bark == Grid(log_bark_pixel)

leaves_pixel(x, y) ==
    Bind(noise(x, y, 10), LAMBDA n :
    LET
        r == 80 + (n % 35) - 17
        g == 140 + ((n \div 4) % 40) - 20
        b == 70 + ((n \div 16) % 30) - 15
    IN  IF noise(x, y, 47) % 22 < 1
        THEN <<clamp(r, 40, 120), clamp(g, 80, 180), clamp(b, 40, 120), 160>>
        ELSE <<clamp(r, 50, 140), clamp(g, 90, 200), clamp(b, 50, 130), 220>>)

gen_leaves == Grid(leaves_pixel)

water_pixel(x, y) ==
    Bind(noise(x, y, 11), LAMBDA n :
    LET
        r == 50 + (n % 18) - 9
        g == 105 + ((n \div 4) % 22) - 11
        b == 220 + ((n \div 16) % 25) - 12
    IN  <<clamp(r, 0, 255), clamp(g, 0, 255), clamp(b, 0, 255), 140>>)

gen_water == Grid(water_pixel)

\* the vein test of line 370
VEIN_MODULUS == 16
VEIN_THRESHOLD == 3

is_vein(x, y, tile_idx) ==
    noise(x * 3 + 7, y * 5 + 11, tile_idx) % VEIN_MODULUS < VEIN_THRESHOLD

ore_vein_pixel(x, y, tile_idx, ore_r, ore_g, ore_b) ==
    Bind(noise(x, y, tile_idx + 50), LAMBDA n :
    LET
        r == ore_r + (n % 20) - 10
        g == ore_g + ((n \div 4) % 20) - 10
        b == ore_b + ((n \div 16) % 20) - 10
    IN  <<clamp(r, 0, 255), clamp(g, 0, 255), clamp(b, 0, 255), 255>>)

ore_pixel_tinted(x, y, tile_idx, ore_r, ore_g, ore_b) ==
    IF is_vein(x, y, tile_idx)
    THEN ore_vein_pixel(x, y, tile_idx, ore_r, ore_g, ore_b)
    ELSE LET v == clamp(gen_stone[y][x][1] - 1, 0, 255) IN <<v, v, v, 255>>

ore_pixel(x, y, tile_idx, ore_r, ore_g, ore_b) ==
    IF is_vein(x, y, tile_idx)
    THEN ore_vein_pixel(x, y, tile_idx, ore_r, ore_g, ore_b)
    ELSE gen_stone[y][x]

gen_ore(tile_idx, ore_r, ore_g, ore_b) ==
    LET P(x, y) == ore_pixel(x, y, tile_idx, ore_r, ore_g, ore_b) IN Grid(P)

bedrock_pixel(x, y) ==
    LET n == noise(x, y, 16)
    IN  Bind(25 + (n % 30), LAMBDA v :
        <<clamp(v, 0, 255), clamp(v, 0, 255), clamp(v, 0, 255), 255>>)

gen_bedrock == Grid(bedrock_pixel)

planks_pixel(x, y) ==
    Bind(noise(x, y, 19), LAMBDA n :
    LET
        r0 == 175 + (n % 20) - 10
        g0 == 140 + ((n \div 4) % 18) - 9
        b0 == 90 + ((n \div 16) % 15) - 7
        gap == y % 4 = 0
        r1 == IF gap THEN r0 - 30 ELSE r0
        g1 == IF gap THEN g0 - 25 ELSE g0
        b1 == IF gap THEN b0 - 20 ELSE b0
        grain == (x + y \div 2) % 3 = 0
        r2 == IF grain THEN r1 - 10 ELSE r1
        g2 == IF grain THEN g1 - 8 ELSE g1
        b2 == IF grain THEN b1 - 6 ELSE b1
    IN  <<clamp(r2, 0, 255), clamp(g2, 0, 255), clamp(b2, 0, 255), 255>>)

gen_planks == Grid(planks_pixel)

\* shape_mask=None (line 426): the absent predicate, told apart from every
\* predicate over the tile by its empty domain
None == << >>

\* cx*cx/25 + cy*cy/20 < 1 with cx = x - 7.5, cy = y - 7.5 (lines 434-435),
\* multiplied through by 400; the left side is odd, so never equal to 400
default_oval(x, y) ==
    4 * (2 * x - 15) * (2 * x - 15) + 5 * (2 * y - 15) * (2 * y - 15) < 400

solid_item_colour(x, y, base_r, base_g, base_b) ==
    Bind(noise(x, y, 99), LAMBDA n :
    LET
        r == base_r + (n % 15) - 7
        g == base_g + ((n \div 4) % 15) - 7
        b == base_b + ((n \div 16) % 15) - 7
    IN  <<clamp(r, 0, 255), clamp(g, 0, 255), clamp(b, 0, 255), 255>>)

solid_item_pixel_unmasked(x, y, base_r, base_g, base_b, shape_mask) ==
    IF default_oval(x, y)
    THEN solid_item_colour(x, y, base_r, base_g, base_b)
    ELSE TRANSPARENT

\* shape_mask is None or a predicate, modelled as a function of <<x, y>>
solid_item_pixel(x, y, base_r, base_g, base_b, shape_mask) ==
    IF shape_mask = None
    THEN IF default_oval(x, y)
         THEN solid_item_colour(x, y, base_r, base_g, base_b)
         ELSE TRANSPARENT
    ELSE IF shape_mask[<<x, y>>]
         THEN solid_item_colour(x, y, base_r, base_g, base_b)
         ELSE TRANSPARENT

gen_solid_item(base_r, base_g, base_b, shape_mask) ==
    LET P(x, y) == solid_item_pixel(x, y, base_r, base_g, base_b, shape_mask) IN Grid(P)

glass_pixel(x, y) ==
    Bind(noise(x, y, 33), LAMBDA n :
    IF x = 0 \/ x = 15 \/ y = 0 \/ y = 15
        THEN <<clamp(170 + (n % 15), 0, 255),
               clamp(190 + ((n \div 4) % 15), 0, 255),
               clamp(200 + ((n \div 16) % 15), 0, 255), 220>>
        ELSE <<clamp(200 + (n % 10), 0, 255),
               clamp(220 + ((n \div 4) % 10), 0, 255),
               clamp(230 + ((n \div 16) % 10), 0, 255), 60>>)

gen_glass == Grid(glass_pixel)

lava_pixel(x, y) ==
    Bind(noise(x * 2, y * 3, 461), LAMBDA n1 :
    Bind(noise(x * 5 + 7, y * 4 + 3, 462), LAMBDA n2 :
    LET r0 == 210 + (n1 % 30)
        g0 == 90 + ((n1 \div 4) % 40)
        b0 == 15 + ((n1 \div 16) % 20)
        vein == n2 % 20 < 2
        r1 == IF vein THEN r0 - 80 ELSE r0
        g1 == IF vein THEN g0 - 40 ELSE g0
        b1 == IF vein THEN b0 - 5 ELSE b0
        hot == n2 % 25 < 1
        r2 == IF hot THEN 255 ELSE r1
        g2 == IF hot THEN 230 ELSE g1
        b2 == IF hot THEN 60 ELSE b1
    IN  <<clamp(r2, 0, 255), clamp(g2, 0, 255), clamp(b2, 0, 255), 255>>))

gen_lava == Grid(lava_pixel)

obsidian_pixel(x, y) ==
    Bind(noise(x, y, 47), LAMBDA n :
    LET
        r0 == 18 + (n % 15)
        g0 == 10 + ((n \div 4) % 10)
        b0 == 28 + ((n \div 16) % 18)
        glint == n % 20 < 1
        r1 == IF glint THEN r0 + 25 ELSE r0
        b1 == IF glint THEN b0 + 30 ELSE b0
    IN  <<clamp(r1, 0, 255), clamp(g0, 0, 255), clamp(b1, 0, 255), 255>>)

gen_obsidian == Grid(obsidian_pixel)

farmland_pixel(x, y) ==
    Bind(gen_dirt[y][x], LAMBDA d :
    LET r0 == clamp(d[1] - 25, 0, 255)
        g0 == clamp(d[2] - 20, 0, 255)
        b0 == clamp(d[3] - 15, 0, 255)
        furrow == y % 4 < 2
        r1 == IF furrow THEN clamp(r0 - 20, 0, 255) ELSE r0
        g1 == IF furrow THEN clamp(g0 - 15, 0, 255) ELSE g0
        b1 == IF furrow THEN clamp(b0 - 10, 0, 255) ELSE b0
    IN  <<r1, g1, b1, d[4]>>)

gen_farmland == Grid(farmland_pixel)

\* the height table of line 559, indexed from stage 0
WHEAT_HEIGHTS == <<4, 6, 8, 10, 11, 13, 14, 16>>

wheat_height_capped(stage) ==
    IF WHEAT_HEIGHTS[stage + 1] > 13 THEN 13 ELSE WHEAT_HEIGHTS[stage + 1]

wheat_height(stage) == WHEAT_HEIGHTS[stage + 1]

\* lines 561-570
wheat_stalk_colour(stage) ==
    IF stage <= 2 THEN <<55, 150, 35>>
    ELSE IF stage <= 4 THEN <<65, 135, 30>>
    ELSE IF stage = 5 THEN <<110, 145, 35>>
    ELSE IF stage = 6 THEN <<140, 140, 30>>
    ELSE <<180, 155, 45>>

\* lines 574-579
wheat_head_colour(stage) ==
    IF stage = 5 THEN <<150, 130, 35>>
    ELSE IF stage = 6 THEN <<190, 160, 45>>
    ELSE <<210, 180, 55>>

wheat_pixel(x, y, stage) ==
    LET height == wheat_height(stage)
        stalk == wheat_stalk_colour(stage)
        head == wheat_head_colour(stage)
        has_head == stage >= 5
        pixels_from_bottom == TILE_SIZE - 1 - y
        is_stalk == x \in {3, 7, 11, 14}
        is_leaf == /\ x \in {2, 4, 6, 8, 10, 12, 13, 15}
                   /\ 1 < pixels_from_bottom
                   /\ pixels_from_bottom < height - 1
                   /\ (pixels_from_bottom + x) % 3 = 0
        is_head == /\ has_head
                   /\ pixels_from_bottom >= height - 3
                   /\ (is_stalk \/ (2 <= x /\ x <= 14 /\ (pixels_from_bottom + x) % 2 = 0))
    IN  IF pixels_from_bottom >= height THEN TRANSPARENT
        ELSE IF is_head
        THEN Bind(noise(x, y, stage + 490), LAMBDA n :
                  <<clamp(head[1] + (n % 15) - 7, 0, 255),
                    clamp(head[2] + ((n \div 4) % 15) - 7, 0, 255),
                    clamp(head[3] + ((n \div 16) % 15) - 7, 0, 255), 255>>)
        ELSE IF is_stalk
        THEN Bind(noise(x, y, stage + 490), LAMBDA n :
                  <<clamp(stalk[1] + (n % 12) - 6, 0, 255),
                    clamp(stalk[2] + ((n \div 4) % 12) - 6, 0, 255),
                    clamp(stalk[3] + ((n \div 16) % 12) - 6, 0, 255), 255>>)
        ELSE IF is_leaf
        THEN Bind(noise(x, y, stage + 491), LAMBDA n :
                  <<clamp(stalk[1] - 10 + (n % 10) - 5, 0, 255),
                    clamp(stalk[2] + 10 + ((n \div 4) % 10) - 5, 0, 255),
                    clamp(stalk[3] - 5 + ((n \div 16) % 10) - 5, 0, 255), 200>>)
        ELSE TRANSPARENT

gen_wheat_stage(stage) ==
    LET P(x, y) == wheat_pixel(x, y, stage) IN Grid(P)

abs(v) == IF v < 0 THEN -v ELSE v

hoe_icon_pixel(x, y) ==
    LET hx == x - 2
        hy == (TILE_SIZE - 1 - y) - 2
        is_handle == 0 <= hx /\ hx <= 8 /\ 0 <= hy /\ hy <= 8 /\ abs(hx - hy) <= 1
        is_blade == 8 <= x /\ x <= 14 /\ 2 <= y /\ y <= 5
    IN  IF is_blade
        THEN Bind(130 + (noise(x, y, 57) % 20) - 10, LAMBDA v :
                  <<clamp(v, 0, 255), clamp(v, 0, 255), clamp(v, 0, 255), 255>>)
        ELSE IF is_handle
        THEN Bind(noise(x, y, 571), LAMBDA nh :
                  <<clamp(115 + (nh % 15) - 7, 0, 255),
                    clamp(80 + ((nh \div 4) % 15) - 7, 0, 255),
                    clamp(45 + ((nh \div 16) % 15) - 7, 0, 255), 255>>)
        ELSE TRANSPARENT

gen_hoe_icon == Grid(hoe_icon_pixel)

\* line 656
seed_positions ==
    << <<4, 6>>, <<7, 4>>, <<10, 7>>, <<5, 10>>, <<8, 9>>,
       <<12, 5>>, <<6, 13>>, <<11, 11>>, <<3, 8>>, <<9, 12>> >>

seeds_icon_pixel(x, y) ==
    LET is_seed == \E i \in 1 .. Len(seed_positions) :
                       abs(x - seed_positions[i][1]) <= 1 /\ abs(y - seed_positions[i][2]) = 0
    IN  IF is_seed
        THEN Bind(noise(x, y, 58), LAMBDA n :
                  <<clamp(90 + (n % 15) - 7, 0, 255),
                    clamp(120 + ((n \div 4) % 15) - 7, 0, 255),
                    clamp(35 + ((n \div 16) % 15) - 7, 0, 255), 255>>)
        ELSE TRANSPARENT

gen_seeds_icon == Grid(seeds_icon_pixel)

wheat_item_pixel(x, y) ==
    LET stalk1 == x = 6 /\ 5 <= y /\ y <= 14
        stalk2 == x = 8 /\ 4 <= y /\ y <= 14
        stalk3 == x = 10 /\ 5 <= y /\ y <= 14
        head1 == 5 <= x /\ x <= 7 /\ 2 <= y /\ y <= 5
        head2 == 7 <= x /\ x <= 9 /\ 1 <= y /\ y <= 4
        head3 == 9 <= x /\ x <= 11 /\ 2 <= y /\ y <= 5
    IN  IF head1 \/ head2 \/ head3
        THEN Bind(noise(x, y, 59), LAMBDA nh :
                  <<clamp(210 + (nh % 15) - 7, 0, 255),
                    clamp(175 + ((nh \div 4) % 15) - 7, 0, 255),
                    clamp(50 + ((nh \div 16) % 15) - 7, 0, 255), 255>>)
        ELSE IF stalk1 \/ stalk2 \/ stalk3
        THEN Bind(noise(x, y, 591), LAMBDA ns :
                  <<clamp(170 + (ns % 15) - 7, 0, 255),
                    clamp(145 + ((ns \div 4) % 15) - 7, 0, 255),
                    clamp(40 + ((ns \div 16) % 15) - 7, 0, 255), 255>>)
        ELSE TRANSPARENT

gen_wheat_item == Grid(wheat_item_pixel)

(***************************************************************************)
(* The compositor, lines 17-37.  Its operators take and return the image   *)
(* state img = [atlas, raised, dropped]; once an exception is raised the   *)
(* remaining statements of the call are skipped.                           *)
(***************************************************************************)
Blank == [y \in Range(ATLAS_HEIGHT) |-> [x \in Range(ATLAS_WIDTH) |-> TRANSPARENT]]

Image(a, r, d) == [atlas |-> a, raised |-> r, dropped |-> d]

\* atlas.putpixel((x, y), color) of line 22: the image library stores the
\* pixel, and raises IndexError for a coordinate outside the image
putpixel(img, x, y, color) ==
    IF x \in DOMAIN img.atlas[0] /\ y \in DOMAIN img.atlas
    THEN [img EXCEPT !.atlas[y][x] = color]
    ELSE [img EXCEPT !.raised = TRUE]

set_pixel_inclusive(img, x, y, color) ==
    IF 0 <= x /\ x <= ATLAS_WIDTH /\ 0 <= y /\ y <= ATLAS_HEIGHT
    THEN putpixel(img, x, y, color)
    ELSE [img EXCEPT !.dropped = @ + 1]

set_pixel(img, x, y, color) ==
    IF 0 <= x /\ x < ATLAS_WIDTH /\ 0 <= y /\ y < ATLAS_HEIGHT
    THEN putpixel(img, x, y, color)
    ELSE [img EXCEPT !.dropped = @ + 1]

tile_origin_short_row(tile_idx) ==
    << (tile_idx % (TILES_PER_ROW - 1)) * TILE_SIZE, (tile_idx \div TILES_PER_ROW) * TILE_SIZE >>

tile_origin_swapped(tile_idx) ==
    << (tile_idx \div TILES_PER_ROW) * TILE_SIZE, (tile_idx % TILES_PER_ROW) * TILE_SIZE >>

tile_origin_ceil_row(tile_idx) ==
    << (tile_idx % TILES_PER_ROW) * TILE_SIZE,
       ((tile_idx + TILES_PER_ROW - 1) \div TILES_PER_ROW) * TILE_SIZE >>

tile_origin_wrapped(tile_idx) ==
    << (tile_idx % TILES_PER_ROW) * TILE_SIZE,
       ((tile_idx \div TILES_PER_ROW) % TILES_PER_ROW) * TILE_SIZE >>

\* <<ox, oy>>; % and \div are Python's % and // (floor, non-negative remainder)
tile_origin(tile_idx) ==
    << (tile_idx % TILES_PER_ROW) * TILE_SIZE, (tile_idx \div TILES_PER_ROW) * TILE_SIZE >>

\* len() of a list modelled as a function on 0 .. n-1
len(f) == Cardinality(DOMAIN f)

draw_pixel_transposed(img, ox, oy, pixels, y, x) ==
    IF y < len(pixels) /\ x < len(pixels[y])
    THEN set_pixel(img, ox + x, oy + y, pixels[x][y])
    ELSE img

\* lines 35-37 for one (x, y)
draw_pixel(img, ox, oy, pixels, y, x) ==
    IF y < len(pixels) /\ x < len(pixels[y])
    THEN set_pixel(img, ox + x, oy + y, pixels[y][x])
    ELSE img

\* the inner loop (line 34) from column x on
RECURSIVE draw_cols(_, _, _, _, _, _)
draw_cols(img, ox, oy, pixels, y, x) ==
    IF x >= TILE_SIZE \/ img.raised THEN img
    ELSE Bind(draw_pixel(img, ox, oy, pixels, y, x),
              LAMBDA drawn : draw_cols(drawn, ox, oy, pixels, y, x + 1))

\* the outer loop (line 33) from row y on
RECURSIVE draw_rows(_, _, _, _, _)
draw_rows(img, ox, oy, pixels, y) ==
    IF y >= TILE_SIZE \/ img.raised THEN img
    ELSE Bind(draw_cols(img, ox, oy, pixels, y, 0),
              LAMBDA drawn : draw_rows(drawn, ox, oy, pixels, y + 1))

draw_tile(img, tile_idx, pixels) ==
    Bind(tile_origin(tile_idx), LAMBDA o : draw_rows(img, o[1], o[2], pixels, 0))

(***************************************************************************)
(* The tile manifest, lines 715-767: which generator call fills which      *)
(* tile index, in the order of the calls.                                  *)
(***************************************************************************)
Call(g, a) == [gen |-> g, args |-> a]

Entry(i, g, a) == [idx |-> i, call |-> Call(g, a)]

manifest ==
    << Entry(0, "gen_air", <<>>),
       Entry(1, "gen_stone", <<>>),
       Entry(2, "gen_cobblestone", <<>>),
       Entry(3, "gen_dirt", <<>>),
       Entry(4, "gen_grass_top", <<>>),
       Entry(5, "gen_grass_side", <<>>),
       Entry(6, "gen_sand", <<>>),
       Entry(7, "gen_gravel", <<>>),
       Entry(8, "gen_log_end", <<>>),
       Entry(9, "gen_log_bark", <<>>),
       Entry(10, "gen_leaves", <<>>),
       Entry(11, "gen_water", <<>>),
       Entry(12, "gen_ore", <<12, 40, 40, 40>>),
       Entry(13, "gen_ore", <<13, 170, 130, 90>>),
       Entry(14, "gen_ore", <<14, 245, 205, 0>>),
       Entry(15, "gen_ore", <<15, 90, 210, 245>>),
       Entry(16, "gen_bedrock", <<>>),
       Entry(17, "gen_solid_item", <<230, 130, 120, None>>),
       Entry(18, "gen_solid_item", <<130, 95, 60, None>>),
       Entry(19, "gen_planks", <<>>),
       Entry(31, "gen_solid_item", <<30, 30, 30, None>>),
       Entry(32, "gen_solid_item", <<190, 185, 180, None>>),
       Entry(33, "gen_glass", <<>>),
       Entry(34, "gen_solid_item", <<190, 120, 75, None>>),
       Entry(37, "gen_solid_item", <<110, 220, 245, None>>),
       Entry(38, "gen_solid_item", <<50, 35, 20, None>>),
       Entry(39, "gen_solid_item", <<245, 190, 40, None>>),
       Entry(46, "gen_lava", <<>>),
       Entry(47, "gen_obsidian", <<>>),
       Entry(48, "gen_farmland", <<>>) >>
    \o [i \in 1 .. 8 |-> Entry(49 + (i - 1), "gen_wheat_stage", <<i - 1>>)]
    \o << Entry(57, "gen_hoe_icon", <<>>),
          Entry(58, "gen_seeds_icon", <<>>),
          Entry(59, "gen_wheat_item", <<>>) >>

\* the grid a generator call returns
Generate(c) ==
    CASE c.gen = "gen_air" -> gen_air
      [] c.gen = "gen_stone" -> gen_stone
      [] c.gen = "gen_cobblestone" -> gen_cobblestone
      [] c.gen = "gen_dirt" -> gen_dirt
      [] c.gen = "gen_grass_top" -> gen_grass_top
      [] c.gen = "gen_grass_side" -> gen_grass_side
      [] c.gen = "gen_sand" -> gen_sand
      [] c.gen = "gen_gravel" -> gen_gravel
      [] c.gen = "gen_log_end" -> gen_log_end
      [] c.gen = "gen_log_bark" -> gen_log_bark
      [] c.gen = "gen_leaves" -> gen_leaves
      [] c.gen = "gen_water" -> gen_water
      [] c.gen = "gen_ore" -> gen_ore(c.args[1], c.args[2], c.args[3], c.args[4])
      [] c.gen = "gen_bedrock" -> gen_bedrock
      [] c.gen = "gen_planks" -> gen_planks
      [] c.gen = "gen_solid_item" ->
             gen_solid_item(c.args[1], c.args[2], c.args[3], c.args[4])
      [] c.gen = "gen_glass" -> gen_glass
      [] c.gen = "gen_lava" -> gen_lava
      [] c.gen = "gen_obsidian" -> gen_obsidian
      [] c.gen = "gen_farmland" -> gen_farmland
      [] c.gen = "gen_wheat_stage" -> gen_wheat_stage(c.args[1])
      [] c.gen = "gen_hoe_icon" -> gen_hoe_icon
      [] c.gen = "gen_seeds_icon" -> gen_seeds_icon
      [] c.gen = "gen_wheat_item" -> gen_wheat_item

Idle == [name |-> "none"]

NoPar == [phase |-> "off"]

(***************************************************************************)
(* The batch run, lines 711-773.  A draw_tile call is entered with its     *)
(* grid already generated (the argument is evaluated first) and advances   *)
(* one iteration of its outer loop per step.                               *)
(***************************************************************************)
Init ==
    /\ atlas = Blank
    /\ raised = FALSE
    /\ dropped = 0
    /\ op = Idle
    /\ ret = <<>>
    /\ pc = "start"
    /\ entry = 1
    /\ output = "absent"
    /\ stdout = <<>>
    /\ par = NoPar

\* lines 711-712
Banner ==
    /\ pc = "start"
    /\ stdout' = stdout \o <<"Generating terrain.png...", "Atlas size">>
    /\ pc' = "draw"
    /\ UNCHANGED <<atlas, raised, dropped, op, ret, entry, output, par>>

\* the next draw_tile(idx, gen_...()) statement of lines 715-767
CallDrawTile ==
    /\ pc = "draw"
    /\ op = Idle
    /\ entry <= Len(manifest)
    /\ op' = [name |-> "draw_tile", tile_idx |-> manifest[entry].idx,
              pixels |-> Generate(manifest[entry].call), y |-> 0]
    /\ entry' = entry + 1
    /\ UNCHANGED <<atlas, raised, dropped, ret, pc, output, stdout, par>>

\* one iteration of draw_tile's outer loop: the whole inner loop for row op.y
DrawRow ==
    /\ op.name = "draw_tile"
    /\ op.y < TILE_SIZE
    /\ ~raised
    /\ \E o \in {tile_origin(op.tile_idx)} :
       \E img \in {draw_cols(Image(atlas, raised, dropped), o[1], o[2], op.pixels, op.y, 0)} :
          /\ atlas' = img.atlas
          /\ raised' = img.raised
          /\ dropped' = img.dropped
    /\ op' = [op EXCEPT !.y = @ + 1]
    /\ UNCHANGED <<ret, pc, entry, output, stdout, par>>

ReturnDrawTile ==
    /\ op.name = "draw_tile"
    /\ op.y = TILE_SIZE
    /\ ~raised
    /\ op' = Idle
    /\ UNCHANGED <<atlas, raised, dropped, ret, pc, entry, output, stdout, par>>

Save_before_last_draw ==
    /\ pc = "draw"
    /\ op = Idle
    /\ entry >= Len(manifest)
    /\ \E fs \in {"ok", "no_directory", "denied"} :
          IF fs = "ok"
          THEN /\ output' = atlas
               /\ pc' = "saved"
               /\ raised' = raised
          ELSE /\ output' = output
               /\ pc' = "failed"
               /\ raised' = TRUE
    /\ UNCHANGED <<atlas, dropped, op, ret, entry, stdout, par>>

\* atlas.save(output_path), line 771: the file system decides; the script
\* neither creates the directory nor catches the error
Save ==
    /\ pc = "draw"
    /\ op = Idle
    /\ entry > Len(manifest)
    /\ \E fs \in {"ok", "no_directory", "denied"} :
          IF fs = "ok"
          THEN /\ output' = atlas
               /\ pc' = "saved"
               /\ raised' = raised
          ELSE /\ output' = output
               /\ pc' = "failed"
               /\ raised' = TRUE
    /\ UNCHANGED <<atlas, dropped, op, ret, entry, stdout, par>>

Report_despite_failure ==
    /\ pc \in {"saved", "failed"}
    /\ stdout' = stdout \o <<"Saved to", "Generated tile slots">>
    /\ pc' = "done"
    /\ UNCHANGED <<atlas, raised, dropped, op, ret, entry, output, par>>

\* lines 772-773
Report ==
    /\ pc = "saved"
    /\ stdout' = stdout \o <<"Saved to", "Generated tile slots">>
    /\ pc' = "done"
    /\ UNCHANGED <<atlas, raised, dropped, op, ret, entry, output, par>>

Next == Banner \/ CallDrawTile \/ DrawRow \/ ReturnDrawTile \/ Save \/ Report

Spec == Init /\ [][Next]_vars

\* pixel (x, y) of tile slot i of an atlas image, by the atlas geometry
SlotPixel(a, i, x, y) == a[(i \div 8) * 16 + y][(i % 8) * 16 + x]

SlotIsTransparent(a, i) ==
    \A y \in Range(16), x \in Range(16) : SlotPixel(a, i, x, y) = <<0, 0, 0, 0>>

\* C1: in every state of the batch run, from the fresh atlas through every
\* draw_tile call to the save, and in the saved image, all 256 pixels of
\* each slot the manifest does not list (20-30, 35, 36, 40-45, 60-63) are
\* (0,0,0,0).
C1_UnlistedSlotsStayTransparent ==
    \A i \in (20 .. 30) \cup {35, 36} \cup (40 .. 45) \cup (60 .. 63) :
        /\ SlotIsTransparent(atlas, i)
        /\ pc \in {"saved", "done"} => SlotIsTransparent(output, i)

\* the run has drawn all 41 tiles and saved: slots 19 and 59 hold opaque
\* pixels, and the slots between and after them are still empty
C1_Witness ==
    /\ pc = "done"
    /\ entry = 42
    /\ SlotPixel(output, 19, 0, 0)[4] = 255
    /\ \E x \in Range(16) : SlotPixel(output, 59, x, 14)[4] = 255
    /\ SlotIsTransparent(output, 20)
    /\ SlotIsTransparent(output, 60)

\* C11: the atlas is exactly 128x128; for every idx in 0..63,
\* tile_origin(idx) = ((idx mod 8)*16, (idx div 8)*16), so index 9 maps to
\* (16,16), and the 16x16 region at that origin lies inside the atlas; in no
\* state of the batch run has the bounds check of set_pixel dropped a write.
C11_ManifestWritesAreInBounds ==
    /\ ATLAS_WIDTH = 128 /\ ATLAS_HEIGHT = 128
    /\ DOMAIN atlas = 0 .. 127
    /\ \A Y \in DOMAIN atlas : DOMAIN atlas[Y] = 0 .. 127
    /\ \A idx \in 0 .. 63 :
          /\ tile_origin(idx) = <<(idx % 8) * 16, (idx \div 8) * 16>>
          /\ tile_origin(idx)[1] >= 0 /\ tile_origin(idx)[1] + 15 < 128
          /\ tile_origin(idx)[2] >= 0 /\ tile_origin(idx)[2] + 15 < 128
    /\ tile_origin(9) = <<16, 16>>
    /\ dropped = 0

\* the last draw_tile call of the manifest has run all its rows: nothing was
\* dropped, tile 9 sits at (16,16) and tile 59's last visible row is in
C11_Witness ==
    /\ op.name = "draw_tile" /\ op.tile_idx = 59 /\ op.y = TILE_SIZE
    /\ dropped = 0
    /\ atlas[16][16] = gen_log_bark[0][0]
    /\ atlas[31][31] = gen_log_bark[15][15]
    /\ \E x \in Range(16) : atlas[126][48 + x] # TRANSPARENT

HasPrinted(message) == \E i \in DOMAIN stdout : stdout[i] = message

\* C12: when atlas.save fails (no destination directory, or the write is
\* denied) the run ends with the error raised: nothing more runs, so there is
\* no retry and "Saved to" is never printed; and "Saved to" is printed only
\* in a run whose save completed, the file holding the atlas.
C12_SaveFailureIsFatal ==
    /\ pc = "failed" =>
          /\ raised
          /\ ~HasPrinted("Saved to")
          /\ ~ENABLED Next
    /\ HasPrinted("Saved to") =>
          /\ pc = "done"
          /\ ~raised
          /\ output = atlas

\* all 41 tiles were drawn and the save failed: only the two banner lines
\* were printed
C12_Witness ==
    /\ pc = "failed"
    /\ raised
    /\ entry = 42
    /\ stdout = <<"Generating terrain.png...", "Atlas size">>
    /\ atlas[16][16] = gen_log_bark[0][0]

(***************************************************************************)
(* noise called on its own: Init draws the arguments, one step applies the *)
(* function.                                                               *)
(***************************************************************************)
NoiseSpan == 2

\* small arguments of both signs, the arguments the generators use most,
\* and the largest magnitudes a 32-bit caller can pass
NoiseArgs ==
    (-NoiseSpan .. NoiseSpan) \cup {15, 497, 2147483647, -2147483647}

InitNoise ==
    /\ atlas = Blank
    /\ raised = FALSE
    /\ dropped = 0
    /\ op \in {[name |-> "noise", x |-> x, y |-> y, seed |-> seed] :
                  x \in NoiseArgs, y \in NoiseArgs, seed \in NoiseArgs}
    /\ ret = <<>>
    /\ pc = "start"
    /\ entry = 1
    /\ output = "absent"
    /\ stdout = <<>>
    /\ par = NoPar

CallNoise ==
    /\ op.name = "noise"
    /\ ret' = noise(op.x, op.y, op.seed)
    /\ op' = [op EXCEPT !.name = "noise_returned"]
    /\ UNCHANGED <<atlas, raised, dropped, pc, entry, output, stdout, par>>

NextNoise == CallNoise

SpecNoise == InitNoise /\ [][NextNoise]_vars

\* what lines 41-43 evaluate to in the source interpreter for these
\* arguments, <<x, y, seed>>
noise_reference ==
    <<0, 0, 0>> :> 0 @@
    <<1, 0, 0>> :> 214 @@
    <<0, 1, 0>> :> 37 @@
    <<0, 0, 1>> :> 64 @@
    <<1, 2, -1>> :> 193 @@
    <<-1, -1, -1>> :> 244 @@
    <<2, -2, 1>> :> 154 @@
    <<15, 15, 1>> :> 160 @@
    <<15, 0, 497>> :> 89 @@
    <<-2, 15, 497>> :> 221 @@
    <<2147483647, 2147483647, 2147483647>> :> 8 @@
    <<-2147483647, -2147483647, -2147483647>> :> 187 @@
    <<2147483647, -2147483647, 0>> :> 186 @@
    <<-2147483647, 0, 2147483647>> :> 87 @@
    <<0, 2147483647, -2>> :> 82 @@
    <<497, 497, 497>> :> 29

\* C7: for integers x, y and seed of either sign and of any magnitude tried,
\* noise(x, y, seed) returns an integer in 0 .. 255, and it is the value of
\* n = x*374761393 + y*668265263 + seed*1597463007,
\* n = (n XOR (n >> 13)) * 1274126177, (n XOR (n >> 16)) AND 0xFF wherever
\* that value is tabulated.
C7_NoiseIsAByte ==
    op.name = "noise_returned" =>
        /\ ret \in 0 .. 255
        /\ <<op.x, op.y, op.seed>> \in DOMAIN noise_reference
               => ret = noise_reference[<<op.x, op.y, op.seed>>]

\* noise has returned for the most negative arguments, with a byte that is
\* neither 0 nor 255
C7_Witness ==
    /\ op.name = "noise_returned"
    /\ op.x = -2147483647 /\ op.y = -2147483647 /\ op.seed = -2147483647
    /\ ret = 187

(***************************************************************************)
(* The generators called on their own, and their grids drawn: Init draws   *)
(* a draw_tile(idx, gen_...()) statement, from the manifest or from the    *)
(* two parameterised families, one step evaluates the argument and the     *)
(* next runs draw_tile.                                                    *)
(***************************************************************************)
MaxOreId == 15

\* ore colours: the extremes of a byte, a manifest colour, and components
\* outside a byte
OreColours == {<<0, 0, 0>>, <<255, 255, 255>>, <<245, 205, 0>>, <<300, -20, 250>>}

OreFamily ==
    {Entry(id, "gen_ore", <<id>> \o c) : id \in 0 .. MaxOreId, c \in OreColours}

\* a shape_mask callable: the lower-left triangle of the tile
triangle_mask == [p \in Range(TILE_SIZE) \X Range(TILE_SIZE) |-> p[1] + p[2] < 12]

\* a shape_mask callable: lambda x, y: (x-7.5)**2/25 + (y-7.5)**2/20 < 1
oval_mask ==
    [p \in Range(TILE_SIZE) \X Range(TILE_SIZE) |->
        4 * (2 * p[1] - 15) * (2 * p[1] - 15) + 5 * (2 * p[2] - 15) * (2 * p[2] - 15) < 400]

SolidItemFamily ==
    {Entry(63, "gen_solid_item", <<c[1], c[2], c[3], m>>) :
        c \in {<<0, 0, 0>>, <<255, 255, 255>>, <<300, -20, 250>>},
        m \in {None, triangle_mask, oval_mask}}

GenEntries == {manifest[k] : k \in DOMAIN manifest} \cup OreFamily \cup SolidItemFamily

InitGen ==
    /\ atlas = Blank
    /\ raised = FALSE
    /\ dropped = 0
    /\ op \in {[name |-> "generate", tile_idx |-> e.idx, call |-> e.call] :
                  e \in GenEntries}
    /\ ret = <<>>
    /\ pc = "start"
    /\ entry = 1
    /\ output = "absent"
    /\ stdout = <<>>
    /\ par = NoPar

\* the argument of draw_tile is evaluated: the generator returns its grid
CallGenerator ==
    /\ op.name = "generate"
    /\ ret' = Generate(op.call)
    /\ op' = [op EXCEPT !.name = "generated"]
    /\ UNCHANGED <<atlas, raised, dropped, pc, entry, output, stdout, par>>

\* draw_tile(idx, grid) as a whole
DrawGenerated ==
    /\ op.name = "generated"
    /\ \E img \in {draw_tile(Image(atlas, raised, dropped), op.tile_idx, ret)} :
          /\ atlas' = img.atlas
          /\ raised' = img.raised
          /\ dropped' = img.dropped
    /\ op' = [op EXCEPT !.name = "drawn"]
    /\ UNCHANGED <<ret, pc, entry, output, stdout, par>>

NextGen == CallGenerator \/ DrawGenerated

SpecGen == InitGen /\ [][NextGen]_vars

IsByte(v) == v \in 0 .. 255

IsBytePixel(px) == Len(px) = 4 /\ \A c \in 1 .. 4 : IsByte(px[c])

\* C6: every channel of every pixel a generator returns, and of every pixel
\* the atlas holds after the grid is drawn, is an integer in 0 .. 255.
C6_ChannelsAreBytes ==
    /\ op.name \in {"generated", "drawn"} =>
          \A y \in Range(TILE_SIZE), x \in Range(TILE_SIZE) : IsBytePixel(ret[y][x])
    /\ \A Y \in Range(ATLAS_HEIGHT), X \in Range(ATLAS_WIDTH) : IsBytePixel(atlas[Y][X])

\* an ore tile asked for with colour components outside a byte has been
\* generated and drawn, and a vein pixel of it is saturated at both ends
C6_Witness ==
    /\ op.name = "drawn"
    /\ op.call = Call("gen_ore", <<15, 300, -20, 250>>)
    /\ \E y \in Range(TILE_SIZE), x \in Range(TILE_SIZE) :
          /\ ret[y][x][1] = 255 /\ ret[y][x][2] = 0
          /\ atlas[16 + y][112 + x] = ret[y][x]

\* C8: in gen_ore(id, r, g, b), a pixel (x, y) with
\* noise(x*3+7, y*5+11, id) mod 16 >= 3 equals gen_stone()[y][x] in all four
\* channels.
C8_OreOffVeinIsStone ==
    (op.name \in {"generated", "drawn"} /\ op.call.gen = "gen_ore") =>
        \A y \in Range(TILE_SIZE), x \in Range(TILE_SIZE) :
            noise(x * 3 + 7, y * 5 + 11, op.call.args[1]) % 16 >= 3
                => ret[y][x] = gen_stone[y][x]

\* a generated ore tile with a pixel off the vein, equal to stone, and a
\* pixel on the vein that differs from stone
C8_Witness ==
    /\ op.name = "generated"
    /\ op.call = Call("gen_ore", <<14, 245, 205, 0>>)
    /\ \E y \in Range(TILE_SIZE), x \in Range(TILE_SIZE) :
          /\ noise(x * 3 + 7, y * 5 + 11, 14) % 16 >= 3
          /\ ret[y][x] = gen_stone[y][x]
    /\ \E y \in Range(TILE_SIZE), x \in Range(TILE_SIZE) :
          /\ noise(x * 3 + 7, y * 5 + 11, 14) % 16 < 3
          /\ ret[y][x] # gen_stone[y][x]

\* C9: the grass-side tile's pixel (x, y) is the grass-top tile's pixel
\* (x, y) for y < 3 and the dirt tile's pixel (x, y) for y >= 3.
C9_GrassSideIsTopOverDirt ==
    (op.name \in {"generated", "drawn"} /\ op.call.gen = "gen_grass_side") =>
        \A y \in Range(TILE_SIZE), x \in Range(TILE_SIZE) :
            /\ y < 3 => ret[y][x] = gen_grass_top[y][x]
            /\ y >= 3 => ret[y][x] = gen_dirt[y][x]

\* the grass-side tile has been generated, and the two tiles it is cut from
\* differ on both sides of the cut, so neither half could be the other tile
C9_Witness ==
    /\ op.name = "generated"
    /\ op.call.gen = "gen_grass_side"
    /\ ret[2][0] = gen_grass_top[2][0] /\ ret[2][0] # gen_dirt[2][0]
    /\ ret[3][0] = gen_dirt[3][0] /\ ret[3][0] # gen_grass_top[3][0]

\* the height table as the claim states it
C10_H == <<4, 6, 8, 10, 11, 13, 14, 16>>

\* C10: in gen_wheat_stage(s), s in 0..7, a row whose distance from the
\* bottom 15 - y is below H[s] holds a non-transparent pixel, a row at
\* distance H[s] or more holds only (0,0,0,0), and H is non-decreasing.
C10_WheatHeight ==
    /\ \A s \in 1 .. 7 : C10_H[s] <= C10_H[s + 1]
    /\ (op.name \in {"generated", "drawn"} /\ op.call.gen = "gen_wheat_stage") =>
          \A y \in Range(TILE_SIZE) :
              /\ 15 - y < C10_H[op.call.args[1] + 1]
                    => \E x \in Range(TILE_SIZE) : ret[y][x] # TRANSPARENT
              /\ 15 - y >= C10_H[op.call.args[1] + 1]
                    => \A x \in Range(TILE_SIZE) : ret[y][x] = TRANSPARENT

\* stage 6 has been generated: its row at distance 13 is visible and its
\* row at distance 14 is empty
C10_Witness ==
    /\ op.name = "generated"
    /\ op.call = Call("gen_wheat_stage", <<6>>)
    /\ \E x \in Range(TILE_SIZE) : ret[2][x] # TRANSPARENT
    /\ \A x \in Range(TILE_SIZE) : ret[1][x] = TRANSPARENT

\* the region test of C14 for pixel (x, y): the predicate when one is
\* supplied, else (x-7.5)^2/25 + (y-7.5)^2/20 < 1, scaled by 400
C14_InRegion(shape_mask, x, y) ==
    IF shape_mask = None
    THEN 4 * (2 * x - 15) * (2 * x - 15) + 5 * (2 * y - 15) * (2 * y - 15) < 400
    ELSE shape_mask[<<x, y>>]

C14_Clamped(v) == IF v < 0 THEN 0 ELSE IF v > 255 THEN 255 ELSE v

\* C14: in gen_solid_item(r, g, b, shape_mask) a pixel inside the region
\* (the predicate if supplied, else the default ellipse) has alpha 255 and
\* channel c equal to clamp(base_c + d), d = ((noise(x,y,99) >> 2(c-1)) mod
\* 15) - 7 in -7..7; a pixel outside is (0,0,0,0); and with the default
\* ellipse as the predicate the grid is the one returned without predicate.
C14_SolidItemRegion ==
    (op.name \in {"generated", "drawn"} /\ op.call.gen = "gen_solid_item") =>
        /\ \A y \in Range(TILE_SIZE), x \in Range(TILE_SIZE) :
              IF C14_InRegion(op.call.args[4], x, y)
              THEN /\ ret[y][x][4] = 255
                   /\ \A c \in 1 .. 3 :
                         \E d \in -7 .. 7 :
                            /\ d = ((noise(x, y, 99) \div (4 ^ (c - 1))) % 15) - 7
                            /\ ret[y][x][c] = C14_Clamped(op.call.args[c] + d)
              ELSE ret[y][x] = <<0, 0, 0, 0>>
        /\ op.call.args[4] = oval_mask =>
              ret = gen_solid_item(op.call.args[1], op.call.args[2], op.call.args[3], None)

\* an item was generated with the triangle predicate and colour components
\* outside a byte: a corner pixel inside the triangle is opaque and
\* saturated, a centre pixel inside the default ellipse is empty
C14_Witness ==
    /\ op.name = "generated"
    /\ op.call = Call("gen_solid_item", <<300, -20, 250, triangle_mask>>)
    /\ ret[0][0][1] = 255 /\ ret[0][0][2] = 0 /\ ret[0][0][4] = 255
    /\ C14_InRegion(None, 8, 8)
    /\ ret[8][8] = <<0, 0, 0, 0>>

\* the first disk in list order that holds pixel (x, y), 0 when none does
C15_Owner(x, y) ==
    LET S == {i \in DOMAIN stones : in_stone_disk(x, y, i)}
    IN  IF S = {} THEN 0 ELSE CHOOSE i \in S : \A j \in S : i <= j

\* pixel (x, y) lies in disks i and j, i before j in the list, and the
\* centre of the later disk j is the nearer one
C15_LaterIsNearer(x, y, i, j) ==
    /\ i < j
    /\ in_stone_disk(x, y, i) /\ in_stone_disk(x, y, j)
    /\ stone_dist2(x, y, j) < stone_dist2(x, y, i)

\* every pixel of the grid takes its base value from the first disk that
\* holds it (the value is base + texture, with the +50 highlight or -25
\* shadow, or the 255 edge highlight); a pixel in no disk is a crack of value
\* 0 or 5 + noise(x,y,2) mod 15, at most 19 and never 255
C15_FirstMatchWins(pixels) ==
    /\ Len(stones) = 7
    /\ \A y \in Range(TILE_SIZE), x \in Range(TILE_SIZE) :
          LET i == C15_Owner(x, y)
              v == pixels[y][x][1]
          IN  /\ pixels[y][x] = <<v, v, v, 255>>
              /\ IF i # 0
                 THEN \/ v = 255
                      \/ \E a \in {50, -25, 0} :
                            v = C14_Clamped(stones[i][4] + (noise(x, y, 5) % 25) - 12 + a)
                 ELSE v \in {0, 5 + (noise(x, y, 2) % 15)} /\ v <= 19 /\ v # 255

C15_Generated == op.name \in {"generated", "drawn"} /\ op.call.gen = "gen_cobblestone"

\* C15: in gen_cobblestone a pixel belongs to the first disk in list order
\* whose centre is nearer than its radius and takes that disk's base value,
\* also where a later disk's centre is nearer, which happens at pixel (4,10)
\* in the overlap of disks (7,8,4) and (2,11,2.5); a pixel in no disk is a
\* crack of value 0 or 5 + noise(x,y,2) mod 15, at most 19, never 255.
C15_FirstDiskInListOrderWins ==
    C15_Generated =>
        /\ C15_FirstMatchWins(ret)
        /\ stones[3] = <<7, 8, 8, 185>> /\ stones[4] = <<2, 11, 5, 165>>
        /\ C15_LaterIsNearer(4, 10, 3, 4)
        /\ C15_Owner(4, 10) = 3

\* C15 as stated: the same, with the overlap of disks (3,3,3.5) and (7,8,4)
\* as the place where a later disk's centre is nearer than the owner's.
C15_AsStated ==
    C15_Generated =>
        /\ C15_FirstMatchWins(ret)
        /\ stones[1] = <<3, 3, 7, 175>> /\ stones[3] = <<7, 8, 8, 185>>
        /\ \E y \in Range(TILE_SIZE), x \in Range(TILE_SIZE) :
              C15_LaterIsNearer(x, y, 1, 3)

\* the cobblestone grid was generated: pixel (4,10) is nearer to the fourth
\* centre and coloured from the third disk, (5,5) lies in the first and the
\* third disk, and (1,0) is a crack at the top of its range
C15_Witness ==
    /\ op.name = "generated" /\ op.call.gen = "gen_cobblestone"
    /\ C15_LaterIsNearer(4, 10, 3, 4)
    /\ ret[10][4] = <<186, 186, 186, 255>>
    /\ in_stone_disk(5, 5, 1) /\ in_stone_disk(5, 5, 3)
    /\ ret[5][5] = <<158, 158, 158, 255>>
    /\ C15_Owner(1, 0) = 0
    /\ ret[0][1] = <<19, 19, 19, 255>>

(***************************************************************************)
(* draw_tile and set_pixel called on their own.                            *)
(***************************************************************************)
\* the draw_tile statements of lines 715-767 from the k-th one on
RECURSIVE run_draws(_, _)
run_draws(img, k) ==
    IF k > Len(manifest) \/ img.raised THEN img
    ELSE Bind(draw_tile(img, manifest[k].idx, Generate(manifest[k].call)),
              LAMBDA drawn : run_draws(drawn, k + 1))

\* the atlas the batch run saves
BatchAtlas == run_draws(Image(Blank, FALSE, 0), 1).atlas

\* a full grid whose 256 pixels are pairwise different and opaque
ramp_pixel(x, y) == <<16 * y + x, x, y, 255>>

Ramp == Grid(ramp_pixel)

DrawGrids == {Ramp, gen_air}

InitDraw ==
    /\ atlas \in {Blank, BatchAtlas}
    /\ raised = FALSE
    /\ dropped = 0
    /\ op \in {[name |-> "draw_tile_call", tile_idx |-> i, pixels |-> g] :
                  i \in Range(TILE_COUNT), g \in DrawGrids}
    /\ ret = <<>>
    /\ pc = "start"
    /\ entry = 1
    /\ output = "absent"
    /\ stdout = <<>>
    /\ par = NoPar

\* draw_tile(tile_idx, pixels) as a whole, lines 30-37
DrawTile ==
    /\ op.name = "draw_tile_call"
    /\ \E img \in {draw_tile(Image(atlas, raised, dropped), op.tile_idx, op.pixels)} :
          /\ atlas' = img.atlas
          /\ raised' = img.raised
          /\ dropped' = img.dropped
    /\ op' = [op EXCEPT !.name = "draw_tile_returned"]
    /\ UNCHANGED <<ret, pc, entry, output, stdout, par>>

NextDraw == DrawTile

SpecDraw == InitDraw /\ [][NextDraw]_vars

\* C2: for i in 0..63 and a full grid g, draw_tile(i, g) leaves g[y][x] at
\* atlas pixel ((i mod 8)*16 + x, (i div 8)*16 + y) for all x, y in 0..15,
\* and leaves every pixel outside that 16x16 region as it was.
C2_DrawTileFillsItsSlot ==
    [][(op.name = "draw_tile_call" /\ op'.name = "draw_tile_returned") =>
          \A Y \in Range(128), X \in Range(128) :
              LET x == X - (op.tile_idx % 8) * 16
                  y == Y - (op.tile_idx \div 8) * 16
              IN  atlas'[Y][X] = IF x \in 0 .. 15 /\ y \in 0 .. 15
                                 THEN op.pixels[y][x]
                                 ELSE atlas[Y][X]]_vars

\* the ramp has been drawn into the last slot of the finished atlas: the
\* slot's corners hold the ramp's corners and a pixel of slot 9 is still
\* the bark it was
C2_Witness ==
    /\ op.name = "draw_tile_returned"
    /\ op.tile_idx = 63
    /\ atlas[112][112] = <<0, 0, 0, 255>>
    /\ atlas[127][127] = <<255, 15, 15, 255>>
    /\ atlas[16][16] = BatchAtlas[16][16]
    /\ atlas[16][16] # TRANSPARENT

(***************************************************************************)
(* draw_tile called with a tile index that is no slot of the atlas.        *)
(***************************************************************************)
OutsideSpan == 16

FarIndex == 100000

\* integers below 0 and from TILE_COUNT up: the ones next to the range, and
\* one far away on either side
OutsideIndices ==
    (-OutsideSpan .. -1)
        \cup (TILE_COUNT .. (TILE_COUNT + OutsideSpan - 1))
        \cup {-FarIndex, FarIndex}

InitOutside ==
    /\ atlas \in {Blank, BatchAtlas}
    /\ raised = FALSE
    /\ dropped = 0
    /\ op \in {[name |-> "draw_tile_call", tile_idx |-> i, pixels |-> g] :
                  i \in OutsideIndices, g \in DrawGrids}
    /\ ret = <<>>
    /\ pc = "start"
    /\ entry = 1
    /\ output = "absent"
    /\ stdout = <<>>
    /\ par = NoPar

NextOutside == DrawTile

SpecOutside == InitOutside /\ [][NextOutside]_vars

\* C16: draw_tile with an integer index outside 0..63 writes no pixel: each
\* of its 256 targets has y >= 128 or y < 0 (floor division), so set_pixel
\* drops all 256 writes, the atlas is unchanged and nothing is raised.
C16_OutsideIndexDrawsNothing ==
    [][(/\ op.name = "draw_tile_call" /\ op'.name = "draw_tile_returned"
        /\ (op.tile_idx >= 64 \/ op.tile_idx < 0)) =>
          /\ \A y \in Range(16), x \in Range(16) :
                LET Y == tile_origin(op.tile_idx)[2] + y
                IN  Y >= 128 \/ Y < 0
          /\ dropped' = dropped + 256
          /\ atlas' = atlas
          /\ ~raised']_vars

\* the ramp was drawn at index -1 over the finished atlas: the origin is
\* (112, -16), all 256 writes were dropped and the atlas is the finished one
C16_Witness ==
    /\ op.name = "draw_tile_returned"
    /\ op.tile_idx = -1
    /\ op.pixels = Ramp
    /\ tile_origin(-1) = <<112, -16>>
    /\ dropped = 256
    /\ ~raised
    /\ atlas = BatchAtlas
    /\ atlas[0][112] # TRANSPARENT

(***************************************************************************)
(* set_pixel at coordinates on both sides of every border, and the loops   *)
(* of draw_tile run from an origin that no tile index yields.              *)
(***************************************************************************)
PixelMargin == 2

EdgeCoords ==
    (-PixelMargin .. PixelMargin)
        \cup ((ATLAS_WIDTH - 1 - PixelMargin) .. (ATLAS_WIDTH - 1 + PixelMargin))

\* origins that put a tile across a corner, across an edge, just outside,
\* and inside
SyntheticOrigins ==
    {<<-8, -8>>, <<120, 120>>, <<-8, 120>>, <<120, -8>>, <<128, 0>>, <<0, -16>>,
     <<-3, 56>>, <<56, 56>>}

InitPixel ==
    /\ atlas \in {Blank, BatchAtlas}
    /\ raised = FALSE
    /\ dropped = 0
    /\ op \in {[name |-> "set_pixel_call", x |-> x, y |-> y, color |-> <<1, 2, 3, 4>>] :
                  x \in EdgeCoords, y \in EdgeCoords}
              \cup {[name |-> "blit_call", ox |-> o[1], oy |-> o[2], pixels |-> Ramp] :
                       o \in SyntheticOrigins}
    /\ ret = <<>>
    /\ pc = "start"
    /\ entry = 1
    /\ output = "absent"
    /\ stdout = <<>>
    /\ par = NoPar

\* set_pixel(x, y, color), lines 19-22
SetPixel ==
    /\ op.name = "set_pixel_call"
    /\ \E img \in {set_pixel(Image(atlas, raised, dropped), op.x, op.y, op.color)} :
          /\ atlas' = img.atlas
          /\ raised' = img.raised
          /\ dropped' = img.dropped
    /\ op' = [op EXCEPT !.name = "set_pixel_returned"]
    /\ UNCHANGED <<ret, pc, entry, output, stdout, par>>

\* lines 33-37 with ox, oy given instead of computed by line 32
Blit ==
    /\ op.name = "blit_call"
    /\ \E img \in {draw_rows(Image(atlas, raised, dropped), op.ox, op.oy, op.pixels, 0)} :
          /\ atlas' = img.atlas
          /\ raised' = img.raised
          /\ dropped' = img.dropped
    /\ op' = [op EXCEPT !.name = "blit_returned"]
    /\ UNCHANGED <<ret, pc, entry, output, stdout, par>>

NextPixel == SetPixel \/ Blit

SpecPixel == InitPixel /\ [][NextPixel]_vars

SameDimensions(a, b) ==
    /\ DOMAIN a = DOMAIN b
    /\ \A Y \in DOMAIN a : DOMAIN a[Y] = DOMAIN b[Y]

\* C4: set_pixel(X, Y, c) writes c at (X, Y) iff 0 <= X < 128 and
\* 0 <= Y < 128 and otherwise leaves the atlas as it was; a tile blitted
\* from an origin that puts part of it outside leaves exactly its in-bounds
\* pixels; neither raises an error nor changes the atlas's dimensions.
C4_OutOfBoundsWritesAreDropped ==
    [][/\ (op.name = "set_pixel_call" /\ op'.name = "set_pixel_returned") =>
            /\ ~raised'
            /\ SameDimensions(atlas', atlas)
            /\ atlas' = IF 0 <= op.x /\ op.x < 128 /\ 0 <= op.y /\ op.y < 128
                        THEN [atlas EXCEPT ![op.y][op.x] = op.color]
                        ELSE atlas
       /\ (op.name = "blit_call" /\ op'.name = "blit_returned") =>
            /\ ~raised'
            /\ SameDimensions(atlas', atlas)
            /\ \A Y \in Range(128), X \in Range(128) :
                  atlas'[Y][X] = IF X - op.ox \in 0 .. 15 /\ Y - op.oy \in 0 .. 15
                                 THEN op.pixels[Y - op.oy][X - op.ox]
                                 ELSE atlas[Y][X]]_vars

\* a tile has been blitted across the bottom-right corner of the finished
\* atlas: 64 of its pixels are in, 192 were dropped, nothing was raised
C4_Witness ==
    /\ op.name = "blit_returned"
    /\ op.ox = 120 /\ op.oy = 120
    /\ ~raised
    /\ dropped = 192
    /\ atlas[120][120] = Ramp[0][0]
    /\ atlas[127][127] = Ramp[7][7]
    /\ atlas[16][16] # TRANSPARENT

(***************************************************************************)
(* Two draw_tile calls of the manifest run as two blitters whose pixel     *)
(* writes interleave.  Each blitter writes its tile's 16 rows in ParChunks  *)
(* uninterrupted spans; the first takes the rows in the order of line 33,  *)
(* the second in the opposite order.                                       *)
(***************************************************************************)
ParChunks == 2

manifest_grids == [k \in DOMAIN manifest |-> Generate(manifest[k].call)]

\* the r-th row a blitter writes
span_row(order, r) == IF order = "forward" THEN r ELSE TILE_SIZE - 1 - r

\* lines 34-37 for the r-th to the (stop-1)-th row of a blitter
RECURSIVE draw_span(_, _, _, _, _, _)
draw_span(img, tile_idx, pixels, order, r, stop) ==
    IF r >= stop \/ img.raised THEN img
    ELSE Bind(draw_cols(img, tile_origin(tile_idx)[1], tile_origin(tile_idx)[2],
                        pixels, span_row(order, r), 0),
              LAMBDA drawn : draw_span(drawn, tile_idx, pixels, order, r + 1, stop))

span_start(c) == (c * TILE_SIZE) \div ParChunks

Blitter(k, order) ==
    [idx |-> manifest[k].idx, pixels |-> manifest_grids[k], order |-> order, chunk |-> 0]

InitPar ==
    /\ atlas = Blank
    /\ raised = FALSE
    /\ dropped = 0
    /\ op = Idle
    /\ ret = <<>>
    /\ pc = "draw"
    /\ entry = 1
    /\ output = "absent"
    /\ stdout = <<>>
    /\ par \in {[phase |-> "run", a |-> Blitter(p[1], "forward"),
                 b |-> Blitter(p[2], "reverse")] :
                   p \in {q \in (DOMAIN manifest) \X (DOMAIN manifest) : q[1] < q[2]}}

ParWrite(w) ==
    /\ par.phase = "run"
    /\ par[w].chunk < ParChunks
    /\ \E img \in {draw_span(Image(atlas, raised, dropped), par[w].idx, par[w].pixels,
                             par[w].order, span_start(par[w].chunk),
                             span_start(par[w].chunk + 1))} :
          /\ atlas' = img.atlas
          /\ raised' = img.raised
          /\ dropped' = img.dropped
    /\ par' = [par EXCEPT ![w].chunk = @ + 1]
    /\ UNCHANGED <<op, ret, pc, entry, output, stdout>>

ParWriteA == ParWrite("a")

ParWriteB == ParWrite("b")

ParJoin ==
    /\ par.phase = "run"
    /\ par.a.chunk = ParChunks
    /\ par.b.chunk = ParChunks
    /\ par' = [par EXCEPT !.phase = "done"]
    /\ UNCHANGED <<atlas, raised, dropped, op, ret, pc, entry, output, stdout>>

NextPar == ParWriteA \/ ParWriteB \/ ParJoin

SpecPar == InitPar /\ [][NextPar]_vars

\* the two tiles drawn one after the other by draw_tile, in manifest order
SequentialPair(a, b) ==
    Bind(draw_tile(Image(Blank, FALSE, 0), a.idx, a.pixels),
         LAMBDA first : draw_tile(first, b.idx, b.pixels))

\* C3: whatever the order of two draw_tile calls of the manifest and however
\* their pixel writes interleave, the atlas they leave is the one the calls
\* leave when run one after the other in index order, and it agrees with the
\* atlas of the whole sequential run wherever it has been written.
C3_WriteOrderDoesNotMatter ==
    par.phase = "done" =>
        /\ ~raised
        /\ atlas = SequentialPair(par.a, par.b).atlas
        /\ \A Y \in Range(ATLAS_HEIGHT), X \in Range(ATLAS_WIDTH) :
              atlas[Y][X] \in {BatchAtlas[Y][X], TRANSPARENT}

\* the blitters of stone and of the wheat item have both finished: both
\* tiles are in the atlas, corner to corner
C3_Witness ==
    /\ par.phase = "done"
    /\ par.a.idx = 1 /\ par.a.chunk = ParChunks
    /\ par.b.idx = 59 /\ par.b.chunk = ParChunks
    /\ atlas[0][16] = gen_stone[0][0]
    /\ atlas[15][31] = gen_stone[15][15]
    /\ \E x \in Range(TILE_SIZE) : atlas[126][48 + x] = gen_wheat_item[14][x]
                                   /\ atlas[126][48 + x] # TRANSPARENT

(***************************************************************************)
(* The batch run entered at any statement boundary of lines 715-771: from  *)
(* the start, or with the first k-1 >= 1 draw_tile statements already run. *)
(* Every such state is a state of Spec, and every state of Spec is reached *)
(* from one of them.                                                       *)
(***************************************************************************)
\* the k-th to the (stop-1)-th draw_tile statement of lines 715-767
RECURSIVE draw_entries(_, _, _)
draw_entries(img, k, stop) ==
    IF k >= stop \/ img.raised THEN img
    ELSE Bind(draw_tile(img, manifest[k].idx, manifest_grids[k]),
              LAMBDA drawn : draw_entries(drawn, k + 1, stop))

InitResume ==
    \/ Init
    \/ /\ \E k \in 2 .. (Len(manifest) + 1) :
             /\ entry = k
             /\ atlas = draw_entries(Image(Blank, FALSE, 0), 1, k).atlas
       /\ raised = FALSE
       /\ dropped = 0
       /\ op = Idle
       /\ ret = <<>>
       /\ pc = "draw"
       /\ output = "absent"
       /\ stdout = <<"Generating terrain.png...", "Atlas size">>
       /\ par = NoPar

SpecResume == InitResume /\ [][Next]_vars

\* C13: in the batch run a draw_tile call begins only at the next manifest
\* entry, whose index is larger than the index of every entry before it, so
\* the indices are drawn in strictly increasing order and none twice; the
\* atlas changes only inside a draw_tile call; the save is attempted only
\* once, after all 41 calls have returned, and stores the atlas they left;
\* after it the atlas and the file no longer change.
C13_DrawsInOrderThenOneSave ==
    [][/\ atlas' # atlas =>
            /\ pc = "draw"
            /\ op.name = "draw_tile" /\ op'.name = "draw_tile"
       /\ (op.name # "draw_tile" /\ op'.name = "draw_tile") =>
            /\ entry \in 1 .. 41
            /\ entry' = entry + 1
            /\ op'.tile_idx = manifest[entry].idx
            /\ \A j \in 1 .. (entry - 1) : manifest[j].idx < op'.tile_idx
       /\ entry' \in {entry, entry + 1}
       /\ (pc = "draw" /\ pc' # "draw") =>
            /\ pc' \in {"saved", "failed"}
            /\ entry = 42 /\ op.name # "draw_tile"
            /\ atlas = BatchAtlas
            /\ pc' = "saved" => output' = atlas
       /\ pc \in {"saved", "done", "failed"} =>
            /\ pc' \in {pc, "done"}
            /\ atlas' = atlas
            /\ output' = output]_vars

\* the save has just completed: the file holds the atlas of all 41 draws
C13_Witness ==
    /\ pc = "saved"
    /\ entry = 42
    /\ output = BatchAtlas
    /\ SlotPixel(output, 59, 8, 14)[4] = 255


====
